---- MODULE Spec2Model ----
(***************************************************************************)
(* Model of the oracle reporting pipeline:                                 *)
(*   - DataFeed.update / DataFeed._collect_inputs                          *)
(*       (src/src/pytelliot/feeder/datafeed.py)                            *)
(*   - BTCUSDReporter.report / BTCUSDReporter.run                          *)
(*       (src/src/telliot/reporter_plugins/rinkeby_btc_usd/reporter.py)    *)
(*                                                                         *)
(* The reporter drives objects through update_value(), .value and          *)
(* .request_id; the feed class of the repository's sources is DataFeed     *)
(* with update() and .result, so a reporter job is one DataFeed.update()   *)
(* call and datafeed.value is DataFeed.result.                             *)
(***************************************************************************)
EXTENDS Integers, Sequences, FiniteSets, TLC

\* ------------------------------------------------------------------ bounds
\* Fetched values are 1..MaxVal.
MaxVal == 2
\* The report loop is explored for MaxTick iterations of `while True`.
MaxTick == 2

\* ------------------------------------------------------------ configuration
\* Keys of self.datafeeds, in dict (insertion) order.
FeedOrder == <<"f1", "f2">>
Feeds == {FeedOrder[i] : i \in 1..Len(FeedOrder)}

\* DataSource.id of each registered source, in list order.
RegisteredSources == [f \in Feeds |-> IF f = "f1" THEN <<"a", "b">> ELSE <<"c">>]

Values == 1..MaxVal

\* Python None / a present value (Optional as a sequence of length 0 or 1).
None == <<>>
Some(v) == <<v>>

\* Outcomes of one DataSource.fetch() call: a value, an exception, or no return.
FetchValue(v) == [kind |-> "value", val |-> v]
FetchError == [kind |-> "raise", val |-> 0]
FetchHang == [kind |-> "hang", val |-> 0]
FetchReturns == {FetchValue(v) : v \in Values} \cup {FetchError}
FetchOutcomes == FetchReturns \cup {FetchHang}

\* The default of the `inputs` field: an empty dict.
EmptyDict == [x \in {} |-> 0]

VARIABLES
  sources,      \* DataFeed.sources: feed -> sequence of source ids
  inputs,       \* DataFeed.inputs: feed -> dict source id -> value
  result,       \* DataFeed.result: feed -> None | Some(value)
  ret,          \* how the last update() of the feed ended
  retval,       \* what the last update() of the feed returned (None if it did not)
  pre,          \* inputs and result of the feed when its last update() began
  lastFetch,    \* outcomes of the fetch() calls made by the last update(), in call order
  lastGood,     \* Algorithm output of the last update() whose fetches and Algorithm all succeeded
  pc,           \* position of the report() task: "idle" (created, not yet run),
                \* "collecting" (awaiting gather), "submitting" (in the for loop),
                \* "in_submit" (inside submit_data), "sleeping", "crashed" (ended
                \* by an exception)
  err,          \* the exception that ended the report() task
  tick,         \* iteration of `while True` the report() task is in
  job,          \* state of the task created for each feed in this iteration
  idx,          \* position of the submission loop in self.datafeeds
  submissions,  \* submit_data calls issued so far, in order
  alive,        \* the event loop has not been closed
  registry,     \* SerializableModel._registry_: type tag -> class
  defined,      \* the SerializableModel subclasses defined so far
  parse         \* the last reconstruction: its input, its outcome, the registry before it

feedVars == <<sources, inputs, result, ret, retval, pre, lastFetch, lastGood>>
loopVars == <<pc, err, tick, job, idx, submissions, alive>>
loopVarsButJob == <<pc, err, tick, idx, submissions, alive>>
regVars == <<registry, defined, parse>>
vars == <<sources, inputs, result, ret, retval, pre, lastFetch, lastGood,
          pc, err, tick, job, idx, submissions, alive, registry, defined, parse>>

\* --------------------------------------------------------- SerializableModel

\* Names of the SerializableModel subclasses that can be defined.
ClassNames == {"Foo", "Bar"}

\* The `type` argument of a subclass definition: "" stands for an omitted
\* (None) or empty argument, both falsy; a tag may be the name of another class.
TypeArgs == {"", "t"} \cup ClassNames

\* Keyword arguments of a model constructor / the fields of an instance.
FieldDicts == {EmptyDict, [x \in {"v"} |-> 1]}

\* A model instance; "Plain" is a BaseModel that is not a SerializableModel.
Instance(c, d) == [isModel |-> TRUE, cls |-> c, fields |-> d, type |-> None, inputs |-> None]

\* A mapping: t and i are what data.get("type") and data.get("inputs") return
\* (None for a missing key).
Mapping(t, i) == [isModel |-> FALSE, cls |-> "", fields |-> EmptyDict, type |-> t, inputs |-> i]

Mappings ==
  {Mapping(t, i) :
     t \in {None} \cup {Some(x) : x \in ClassNames \cup {"t", "Unknown"}},
     i \in {None} \cup {Some(d) : d \in FieldDicts}}

\* How a call ends: it returns an instance or raises.
Returned(c, d) == [kind |-> "return", cls |-> c, fields |-> d, msg |-> ""]
Raised(exc, m) == [kind |-> exc, cls |-> "", fields |-> EmptyDict, msg |-> m]

\* __init_subclass__: cls._registry_[type or cls.__name__] = cls
InitSubclass(reg, c, t) ==
  LET key == IF t = "" THEN c ELSE t
  IN [x \in (DOMAIN reg) \cup {key} |-> IF x = key THEN c ELSE reg[x]]

\* _convert_to_model with `inputs or {}`: a missing `inputs` is taken as empty.
ConvertDefaultingInputs(reg, data) ==
  IF data.isModel THEN Returned(data.cls, data.fields)
  ELSE IF data.type = None THEN Raised("ValueError", "Missing 'type'")
  ELSE IF data.type[1] \notin DOMAIN reg THEN Raised("TypeError", "Unsupported type")
  ELSE IF data.inputs = None THEN Returned(reg[data.type[1]], EmptyDict)
  ELSE Returned(reg[data.type[1]], data.inputs[1])

\* _convert_to_model with the `inputs` check moved before the registry lookup.
ConvertInputsFirst(reg, data) ==
  IF data.isModel THEN Returned(data.cls, data.fields)
  ELSE IF data.type = None THEN Raised("ValueError", "Missing 'type'")
  ELSE IF data.inputs = None THEN Raised("ValueError", "Missing inputs")
  ELSE IF data.type[1] \notin DOMAIN reg THEN Raised("TypeError", "Unsupported type")
  ELSE Returned(reg[data.type[1]], data.inputs[1])

\* SerializableModel._convert_to_model(data) with registry reg.
ConvertToModel(reg, data) ==
  IF data.isModel THEN Returned(data.cls, data.fields)
  ELSE IF data.type = None THEN Raised("ValueError", "Missing 'type'")
  ELSE IF data.type[1] \notin DOMAIN reg THEN Raised("TypeError", "Unsupported type")
  ELSE IF data.inputs = None THEN Raised("ValueError", "Missing inputs")
  ELSE Returned(reg[data.type[1]], data.inputs[1])

\* SerializableModel.dict(): the class name and the fields.
DictOf(x) == Mapping(Some(x.cls), Some(x.fields))

\* No reconstruction has been attempted since the registry last changed.
NoParse ==
  [op |-> "none", data |-> Mapping(None, None), src |-> Instance("", EmptyDict),
   out |-> Raised("", ""), regBefore |-> EmptyDict]

\* ------------------------------------------------------------------ DataFeed

\* self.inputs.setdefault(key, v): a value already stored is kept.
PutIfAbsent(d, key, v) ==
  [x \in (DOMAIN d) \cup {key} |-> IF x \in DOMAIN d THEN d[x] ELSE v]

\* self.inputs[key] = v
Put(d, key, v) == [x \in (DOMAIN d) \cup {key} |-> IF x = key THEN v ELSE d[x]]

RECURSIVE SumSeq(_)
SumSeq(s) == IF s = <<>> THEN 0 ELSE Head(s) + SumSeq(Tail(s))

RECURSIVE SumDict(_)
SumDict(d) ==
  IF DOMAIN d = {} THEN 0
  ELSE LET k == CHOOSE x \in DOMAIN d : TRUE
       IN d[k] + SumDict([x \in (DOMAIN d) \ {k} |-> d[x]])

\* The feed's algorithm, called as algorithm(**inputs): here the sum of the
\* keyword arguments.
Algorithm(kw) == SumDict(kw)

\* The collection loop with a failing fetch() swallowed: the source is skipped
\* and the loop goes on.
RECURSIVE CollectSkippingFailed(_, _, _, _)
CollectSkippingFailed(srcs, out, inp, k) ==
  IF k > Len(srcs) THEN [inputs |-> inp, status |-> "ok", nfetched |-> Len(srcs)]
  ELSE IF out[k].kind = "raise"
         THEN CollectSkippingFailed(srcs, out, inp, k + 1)
  ELSE IF out[k].kind = "hang"
         THEN [inputs |-> inp, status |-> "hung", nfetched |-> k]
  ELSE CollectSkippingFailed(srcs, out, Put(inp, srcs[k], out[k].val), k + 1)

\* The collection loop that stores a placeholder for the source whose fetch()
\* raised before it gives up.
RECURSIVE CollectMarkingFailed(_, _, _, _)
CollectMarkingFailed(srcs, out, inp, k) ==
  IF k > Len(srcs) THEN [inputs |-> inp, status |-> "ok", nfetched |-> Len(srcs)]
  ELSE IF out[k].kind = "raise"
         THEN [inputs |-> Put(inp, srcs[k], 0), status |-> "FetchError", nfetched |-> k]
  ELSE IF out[k].kind = "hang"
         THEN [inputs |-> inp, status |-> "hung", nfetched |-> k]
  ELSE CollectMarkingFailed(srcs, out, Put(inp, srcs[k], out[k].val), k + 1)

\* for source in self.sources: self.inputs[source.id] = source.fetch()
\* from the k-th source on; out[k] is what the k-th fetch() does.
RECURSIVE CollectFrom(_, _, _, _)
CollectFrom(srcs, out, inp, k) ==
  IF k > Len(srcs) THEN [inputs |-> inp, status |-> "ok", nfetched |-> Len(srcs)]
  ELSE IF out[k].kind = "raise"
         THEN [inputs |-> inp, status |-> "FetchError", nfetched |-> k]
  ELSE IF out[k].kind = "hang"
         THEN [inputs |-> inp, status |-> "hung", nfetched |-> k]
  ELSE CollectFrom(srcs, out, Put(inp, srcs[k], out[k].val), k + 1)

CollectInputs(srcs, out, inp) == CollectFrom(srcs, out, inp, 1)

\* update() that resets `result` before it calls the algorithm, so that a
\* raising algorithm leaves `result` at None.
UpdateClearingResult(srcs, out, algOk, inp, res) ==
  LET c == CollectInputs(srcs, out, inp)
  IN IF c.status # "ok"
       THEN [inputs |-> c.inputs, result |-> res, ret |-> c.status,
             retval |-> None, nfetched |-> c.nfetched]
     ELSE IF ~algOk
       THEN [inputs |-> c.inputs, result |-> None, ret |-> "AlgorithmError",
             retval |-> None, nfetched |-> c.nfetched]
     ELSE [inputs |-> c.inputs, result |-> Some(Algorithm(c.inputs)),
           ret |-> "returned", retval |-> Some(Algorithm(c.inputs)),
           nfetched |-> c.nfetched]

\* DataFeed.update(): the state it leaves and how it ends. algOk tells whether
\* the algorithm call returns (TRUE) or raises (FALSE).
UpdateOutcome(srcs, out, algOk, inp, res) ==
  LET c == CollectInputs(srcs, out, inp)
  IN IF c.status # "ok"
       THEN [inputs |-> c.inputs, result |-> res, ret |-> c.status,
             retval |-> None, nfetched |-> c.nfetched]
     ELSE IF ~algOk
       THEN [inputs |-> c.inputs, result |-> res, ret |-> "AlgorithmError",
             retval |-> None, nfetched |-> c.nfetched]
     ELSE [inputs |-> c.inputs, result |-> Some(Algorithm(c.inputs)),
           ret |-> "returned", retval |-> Some(Algorithm(c.inputs)),
           nfetched |-> c.nfetched]

\* One update() call on feed f, with its effect on the feed and on the
\* history variables.
DoUpdate(f, out, algOk) ==
  LET u == UpdateOutcome(sources[f], out, algOk, inputs[f], result[f])
      made == SubSeq(out, 1, u.nfetched)
  IN /\ inputs' = [inputs EXCEPT ![f] = u.inputs]
     /\ result' = [result EXCEPT ![f] = u.result]
     /\ ret' = [ret EXCEPT ![f] = u.ret]
     /\ retval' = [retval EXCEPT ![f] = u.retval]
     /\ pre' = [pre EXCEPT ![f] = [inputs |-> inputs[f], result |-> result[f]]]
     /\ lastFetch' = [lastFetch EXCEPT ![f] = made]
     /\ lastGood' = [lastGood EXCEPT ![f] =
                       IF u.ret = "returned"
                         THEN Some(SumSeq([k \in 1..Len(made) |-> made[k].val]))
                         ELSE @]
     /\ UNCHANGED <<sources, regVars>>

\* What the fetch() calls of one update() of feed f can do.
Outcomes(f, kinds) == [1..Len(sources[f]) -> kinds]

\* A direct call of update() on feed f, every fetch() returning or raising.
Update(f) ==
  /\ \E out \in Outcomes(f, FetchReturns), algOk \in BOOLEAN : DoUpdate(f, out, algOk)
  /\ UNCHANGED loopVars

Init ==
  /\ sources = RegisteredSources
  /\ inputs = [f \in Feeds |-> EmptyDict]
  /\ result = [f \in Feeds |-> None]
  /\ ret = [f \in Feeds |-> "none"]
  /\ retval = [f \in Feeds |-> None]
  /\ pre = [f \in Feeds |-> [inputs |-> EmptyDict, result |-> None]]
  /\ lastFetch = [f \in Feeds |-> <<>>]
  /\ lastGood = [f \in Feeds |-> None]
  /\ pc = "idle"
  /\ err = "none"
  /\ tick = 0
  /\ job = [f \in Feeds |-> "none"]
  /\ idx = 1
  /\ submissions = <<>>
  /\ alive = TRUE
  /\ registry = EmptyDict
  /\ defined = {}
  /\ parse = NoParse

\* Any sequence of update() calls on the feeds.
FeedNext == \E f \in Feeds : Update(f)

FeedSpec == Init /\ [][FeedNext]_vars

\* ------------------------------------------------------------ BTCUSDReporter

N == Len(FeedOrder)

\* The submit_data call that has not returned yet, if any.
InFlight == {i \in DOMAIN submissions : submissions[i].status = "inflight"}

\* A submit_data call was issued for feed f in iteration t.
Submitted(f, t) ==
  \E i \in DOMAIN submissions : submissions[i].feed = f /\ submissions[i].tick = t

\* `if datafeed.value:` on a value that is None or an object.
Truthy(v) == v # None

\* After the last iteration of the `for` loop the task reaches
\* `await asyncio.sleep(10)`.
AfterFeed(i) == IF i >= N THEN "sleeping" ELSE "submitting"

\* Top of `while True`: a task is created for every feed and the report task
\* awaits gather(*jobs). The first iteration starts when the loop runs the
\* task, the later ones when the sleep is over.
StartTick ==
  /\ alive
  /\ pc \in {"idle", "sleeping"}
  /\ tick < MaxTick
  /\ tick' = tick + 1
  /\ job' = [f \in Feeds |-> "pending"]
  /\ pc' = "collecting"
  /\ UNCHANGED <<feedVars, regVars, err, idx, submissions, alive>>

\* The event loop runs the task of feed f: one update() of the feed, which
\* returns, raises, or never comes back from a fetch().
RunJob(f) ==
  /\ alive
  /\ job[f] = "pending"
  /\ \E out \in Outcomes(f, FetchOutcomes), algOk \in BOOLEAN : DoUpdate(f, out, algOk)
  /\ job' = [job EXCEPT ![f] = IF ret'[f] = "returned" THEN "done"
                               ELSE IF ret'[f] = "hung" THEN "hung"
                               ELSE "raised"]
  /\ UNCHANGED loopVarsButJob

\* The exception of a job caught and recorded, the loop going on to its sleep.
GatherRaiseAndContinue ==
  /\ alive
  /\ pc = "collecting"
  /\ \E f \in Feeds : job[f] = "raised"
  /\ pc' = "sleeping"
  /\ err' = "update"
  /\ UNCHANGED <<feedVars, regVars, tick, job, idx, submissions, alive>>

\* gather(*jobs) without return_exceptions: the first exception of a job is
\* raised in report(), which has no handler, so the report task ends.
GatherRaise ==
  /\ alive
  /\ pc = "collecting"
  /\ \E f \in Feeds : job[f] = "raised"
  /\ pc' = "crashed"
  /\ err' = "update"
  /\ UNCHANGED <<feedVars, regVars, tick, job, idx, submissions, alive>>

\* gather(*jobs) returns once every job has returned.
GatherReturn ==
  /\ alive
  /\ pc = "collecting"
  /\ \A f \in Feeds : job[f] = "done"
  /\ pc' = "submitting"
  /\ idx' = 1
  /\ UNCHANGED <<feedVars, regVars, err, tick, job, submissions, alive>>

\* One iteration of `for uid, datafeed in self.datafeeds.items()` up to the
\* call of submit_data, or past the feed when its value is falsy.
SubmitNext ==
  /\ alive
  /\ pc = "submitting"
  /\ idx <= N
  /\ LET f == FeedOrder[idx]
     IN IF Truthy(result[f])
          THEN /\ submissions' = Append(submissions,
                     [feed |-> f, tick |-> tick, value |-> result[f][1],
                      status |-> "inflight"])
               /\ pc' = "in_submit"
               /\ UNCHANGED idx
          ELSE /\ idx' = idx + 1
               /\ pc' = AfterFeed(idx)
               /\ UNCHANGED submissions
  /\ UNCHANGED <<feedVars, regVars, err, tick, job, alive>>

\* submit_data that sends the transaction and does not wait for its receipt:
\* the loop goes on while the submission is still in flight.
SubmitWithoutWaiting ==
  /\ alive
  /\ pc = "in_submit"
  /\ idx' = idx + 1
  /\ pc' = AfterFeed(idx)
  /\ UNCHANGED <<feedVars, regVars, err, tick, job, submissions, alive>>

\* submit_data returns (the transaction receipt arrived).
SubmitReturn ==
  /\ alive
  /\ pc = "in_submit"
  /\ submissions' = [submissions EXCEPT ![Len(submissions)].status = "ok"]
  /\ idx' = idx + 1
  /\ pc' = AfterFeed(idx)
  /\ UNCHANGED <<feedVars, regVars, err, tick, job, alive>>

\* A failing submit_data caught and retried at once: the loop stays on the
\* same feed.
SubmitRaiseAndRetry ==
  /\ alive
  /\ pc = "in_submit"
  /\ submissions' = [submissions EXCEPT ![Len(submissions)].status = "failed"]
  /\ pc' = "submitting"
  /\ UNCHANGED <<feedVars, regVars, err, tick, job, idx, alive>>

\* submit_data raises (request, transaction or receipt timeout error); report()
\* has no handler, so the report task ends.
SubmitRaise ==
  /\ alive
  /\ pc = "in_submit"
  /\ submissions' = [submissions EXCEPT ![Len(submissions)].status = "failed"]
  /\ pc' = "crashed"
  /\ err' = "submit"
  /\ UNCHANGED <<feedVars, regVars, tick, job, idx, alive>>

\* run(): KeyboardInterrupt / SystemExit leaves run_forever() and the loop is
\* closed, whatever the tasks are doing.
Interrupt ==
  /\ alive
  /\ alive' = FALSE
  /\ UNCHANGED <<feedVars, regVars, pc, err, tick, job, idx, submissions>>

Next ==
  \/ StartTick
  \/ \E f \in Feeds : RunJob(f)
  \/ GatherRaise
  \/ GatherReturn
  \/ SubmitNext
  \/ SubmitReturn
  \/ SubmitRaise
  \/ Interrupt

Spec == Init /\ [][Next]_vars

\* The event loop runs every ready task; the interrupt is external.
FairSpec ==
  /\ Spec
  /\ WF_vars(StartTick)
  /\ \A f \in Feeds : WF_vars(RunJob(f))
  /\ WF_vars(GatherRaise)
  /\ WF_vars(GatherReturn)
  /\ WF_vars(SubmitNext)
  /\ WF_vars(SubmitReturn \/ SubmitRaise)

\* ------------------------------------------------------------ configurations

\* Source lists a DataFeed can be constructed with: the constructor checks
\* neither that the list is non-empty nor that the ids differ.
SourceConfigs == {<<>>, <<"a">>, <<"a", "b">>, <<"a", "a">>}

\* The state after construction with any of these source lists.
ConfigInit ==
  /\ sources \in [Feeds -> SourceConfigs]
  /\ inputs = [f \in Feeds |-> EmptyDict]
  /\ result = [f \in Feeds |-> None]
  /\ ret = [f \in Feeds |-> "none"]
  /\ retval = [f \in Feeds |-> None]
  /\ pre = [f \in Feeds |-> [inputs |-> EmptyDict, result |-> None]]
  /\ lastFetch = [f \in Feeds |-> <<>>]
  /\ lastGood = [f \in Feeds |-> None]
  /\ pc = "idle"
  /\ err = "none"
  /\ tick = 0
  /\ job = [f \in Feeds |-> "none"]
  /\ idx = 1
  /\ submissions = <<>>
  /\ alive = TRUE
  /\ registry = EmptyDict
  /\ defined = {}
  /\ parse = NoParse

\* The report loop started on feeds of any configuration.
ConfigSpec == ConfigInit /\ [][Next]_vars

\* ------------------------------------------------ SerializableModel: actions

\* class c(SerializableModel, type=t): ...
DefineSubclass(c, t) ==
  /\ c \notin defined
  /\ registry' = InitSubclass(registry, c, t)
  /\ defined' = defined \cup {c}
  /\ parse' = NoParse
  /\ UNCHANGED <<feedVars, loopVars>>

\* SerializableModel.parse_obj(data), data a mapping or a model instance.
ParseObj(data) ==
  /\ parse' = [op |-> "parse", data |-> data, src |-> Instance("", EmptyDict),
               out |-> ConvertToModel(registry, data), regBefore |-> registry]
  /\ UNCHANGED <<feedVars, loopVars, registry, defined>>

\* parse_obj(x.dict()) for an instance x of a defined subclass.
RoundTrip(x) ==
  /\ parse' = [op |-> "roundtrip", data |-> DictOf(x), src |-> x,
               out |-> ConvertToModel(registry, DictOf(x)), regBefore |-> registry]
  /\ UNCHANGED <<feedVars, loopVars, registry, defined>>

RegistryNext ==
  \/ \E c \in ClassNames, t \in TypeArgs : DefineSubclass(c, t)
  \/ \E data \in Mappings \cup {Instance(c, d) : c \in defined \cup {"Plain"}, d \in FieldDicts} :
       ParseObj(data)
  \/ \E c \in defined, d \in FieldDicts : RoundTrip(Instance(c, d))

RegistrySpec == Init /\ [][RegistryNext]_vars

\* ------------------------------------------------------------------- claims

SourceIds(f) == {sources[f][k] : k \in 1..Len(sources[f])}

\* C1: when a source fails during update(), `inputs` and `result` are what
\* they were before the call (no value fetched in the failed call is kept).
C1_AtomicCommit ==
  \A f \in Feeds :
    ret[f] = "FetchError" =>
      /\ inputs[f] = pre[f].inputs
      /\ result[f] = pre[f].result

\* C2: `result` is absent or the Algorithm output of the most recent update()
\* in which every fetch and the Algorithm succeeded, computed from the values
\* fetched in that call alone.
C2_ResultInvariant == \A f \in Feeds : result[f] = lastGood[f]

\* A failed update() after a successful one: `inputs` has changed, `result`
\* is still there.
C2_Witness ==
  \E f \in Feeds :
    /\ ret[f] \in {"FetchError", "AlgorithmError"}
    /\ result[f] # None
    /\ inputs[f] # pre[f].inputs

\* C3: an update() whose fetches and Algorithm all succeed leaves in `inputs`
\* exactly source id -> value fetched in this call, sets `result` to the
\* Algorithm of that mapping and returns it.
C3_SuccessfulUpdate ==
  \A f \in Feeds :
    ret[f] = "returned" =>
      /\ DOMAIN inputs[f] = SourceIds(f)
      /\ Len(lastFetch[f]) = Len(sources[f])
      /\ \A k \in 1..Len(sources[f]) :
           /\ lastFetch[f][k].kind = "value"
           /\ inputs[f][sources[f][k]] = lastFetch[f][k].val
      /\ result[f] = Some(Algorithm(inputs[f]))
      /\ retval[f] = result[f]

\* A successful update() of a feed with several sources that replaced the
\* values of an earlier update().
C3_Witness ==
  \E f \in Feeds :
    /\ ret[f] = "returned"
    /\ Len(sources[f]) > 1
    /\ DOMAIN pre[f].inputs = SourceIds(f)
    /\ \A x \in SourceIds(f) : pre[f].inputs[x] # inputs[f][x]

\* C4: when the update of one feed fails and the update of another succeeds
\* in the same iteration, the other feed's result is still submitted in that
\* iteration and the report loop goes on.
C4_Independence ==
  \A a, b \in Feeds :
    (job[a] = "raised" /\ job[b] = "done") =>
      (pc # "crashed" \/ Submitted(b, tick))

\* C5: a failing submit_data does not end the report loop.
C5_SubmissionAbsorbed ==
  \A i \in DOMAIN submissions :
    submissions[i].status = "failed" =>
      pc \in {"collecting", "submitting", "in_submit", "sleeping"}

\* The report task is past the submission phase of its iteration, or over.
TickOver == pc \in {"sleeping", "crashed"}

\* C6: in every iteration submit_data is called for a feed exactly when the
\* feed's update succeeded in that iteration, with the value of that update,
\* and never twice.
C6_OnlyFresh ==
  /\ TickOver => \A f \in Feeds : Submitted(f, tick) <=> job[f] = "done"
  /\ \A i \in DOMAIN submissions :
       /\ submissions[i].tick = tick => Some(submissions[i].value) = lastGood[submissions[i].feed]
       /\ \A j \in DOMAIN submissions :
            (submissions[j].feed = submissions[i].feed
               /\ submissions[j].tick = submissions[i].tick) => i = j

\* C7: the submissions of one feed are issued in strictly increasing
\* iteration order, and one has returned before the next is issued.
C7_SubmissionOrdering ==
  \A i, j \in DOMAIN submissions :
    (i < j /\ submissions[i].feed = submissions[j].feed) =>
      /\ submissions[i].tick < submissions[j].tick
      /\ submissions[i].status # "inflight"

\* Two submissions of the same feed.
C7_Witness ==
  \E i, j \in DOMAIN submissions :
    /\ i < j
    /\ submissions[i].feed = submissions[j].feed
    /\ submissions[j].status = "inflight"

\* C8: when a fetch of one feed never returns while the other feeds' updates
\* succeed, the collection phase still ends and the submission phase is
\* reached (unless the loop is interrupted).
C8_BoundedCollection ==
  \A f \in Feeds :
    (job[f] = "hung" /\ \A g \in Feeds \ {f} : job[g] = "done")
      ~> (pc \in {"submitting", "in_submit"} \/ ~alive)

\* C9: the report task cycles collecting -> submitting -> sleeping ->
\* collecting and never leaves the cycle; nothing is submitted before every
\* update of the iteration has settled, and no update runs while a
\* submission is in flight or the task sleeps.
C9_PhaseOrdering ==
  /\ pc \in {"idle", "collecting", "submitting", "in_submit", "sleeping"}
  /\ pc \in {"submitting", "in_submit"} => \A f \in Feeds : job[f] \in {"done", "raised"}
  /\ InFlight # {} => pc = "in_submit"
  /\ (\E f \in Feeds : job[f] = "pending") => pc = "collecting"

\* C10: when the event loop is closed by an interrupt, the report task is
\* between iterations (or already over): no submission is in flight and no
\* update is pending.
C10_CancellationDrains ==
  ~alive =>
    /\ InFlight = {}
    /\ \A f \in Feeds : job[f] # "pending"
    /\ pc \in {"idle", "sleeping", "crashed"}

\* C11: in every iteration submit_data is called at most once for a feed,
\* whether the call succeeds or fails.
C11_NoRetry ==
  \A i, j \in DOMAIN submissions :
    (submissions[i].feed = submissions[j].feed
       /\ submissions[i].tick = submissions[j].tick) => i = j

\* A submission has failed.
C11_Witness ==
  \E i \in DOMAIN submissions : submissions[i].status = "failed"

\* C12: when every fetch succeeds and the algorithm raises, update() ends
\* with the error, `result` is what it was before the call and `inputs` holds
\* the values fetched in this call.
C12_AlgorithmFailure ==
  \A f \in Feeds :
    ret[f] = "AlgorithmError" =>
      /\ retval[f] = None
      /\ result[f] = pre[f].result
      /\ Len(lastFetch[f]) = Len(sources[f])
      /\ DOMAIN inputs[f] = SourceIds(f)
      /\ \A k \in 1..Len(sources[f]) : inputs[f][sources[f][k]] = lastFetch[f][k].val

\* The algorithm raises on values that differ from those of an earlier,
\* successful update().
C12_Witness ==
  \E f \in Feeds :
    /\ ret[f] = "AlgorithmError"
    /\ result[f] # None
    /\ inputs[f] # pre[f].inputs

\* C16: every update() that ends has called fetch() once on every registered
\* source, also when a source failed.
C16_FetchesEverySource ==
  \A f \in Feeds :
    ret[f] \in {"returned", "FetchError", "AlgorithmError"} =>
      Len(lastFetch[f]) = Len(sources[f])

\* C17: when the k-th source is the first to fail, `inputs` holds this call's
\* values for sources 1..k-1 and what it held before for sources k..n, the
\* sources after k were not fetched, and `result` is unchanged.
C17_PrefixWrite ==
  \A f \in Feeds :
    ret[f] = "FetchError" =>
      LET k == Len(lastFetch[f])
          written == {sources[f][j] : j \in 1..(k - 1)}
      IN /\ k \in 1..Len(sources[f])
         /\ lastFetch[f][k].kind = "raise"
         /\ \A j \in 1..(k - 1) :
              /\ lastFetch[f][j].kind = "value"
              /\ inputs[f][sources[f][j]] = lastFetch[f][j].val
         /\ DOMAIN inputs[f] = (DOMAIN pre[f].inputs) \cup written
         /\ \A x \in (DOMAIN inputs[f]) \ written : inputs[f][x] = pre[f].inputs[x]
         /\ result[f] = pre[f].result
         /\ retval[f] = None

\* The second source of a feed fails after the first returned a value that
\* differs from the one stored by an earlier, successful update().
C17_Witness ==
  \E f \in Feeds :
    /\ ret[f] = "FetchError"
    /\ Len(lastFetch[f]) = 2
    /\ DOMAIN pre[f].inputs = SourceIds(f)
    /\ pre[f].inputs[sources[f][1]] # inputs[f][sources[f][1]]
    /\ result[f] # None

\* C18: once the report task has ended with an exception, no feed is updated
\* and nothing is submitted any more.
C18_SilentStop ==
  [][err # "none" =>
       /\ inputs' = inputs
       /\ result' = result
       /\ submissions' = submissions
       /\ tick' = tick]_vars

\* C18 as amended: once the report task has ended with an exception it stays
\* ended, no iteration starts, nothing is submitted, and a feed changes only
\* through a job that was still pending when the task ended; the step that
\* ends the task leaves the event loop running.
C18_SilentStopAmended ==
  [][/\ err # "none" =>
          /\ pc' = pc
          /\ err' = err
          /\ tick' = tick
          /\ submissions' = submissions
          /\ \A f \in Feeds :
               job[f] # "pending" =>
                 /\ job'[f] = job[f]
                 /\ inputs'[f] = inputs[f]
                 /\ result'[f] = result[f]
     /\ (err = "none" /\ err' # "none") => (pc' = "crashed" /\ alive')]_vars

\* The report task has ended with an exception, the event loop still runs,
\* and a feed updated in that iteration was not submitted.
C18_Witness ==
  /\ err # "none"
  /\ pc = "crashed"
  /\ alive
  /\ \E f \in Feeds : job[f] = "done" /\ ~Submitted(f, tick)

\* The mapping of the last parse_obj call names a type / has inputs.
ParsedMapping == parse.op = "parse" /\ ~parse.data.isModel
TypeMissing == parse.data.type = None
InputsMissing == parse.data.inputs = None
TypeRegistered == ~TypeMissing /\ parse.data.type[1] \in DOMAIN parse.regBefore

\* C14: reconstruction from a mapping fails with the missing-field error when
\* `type` or `inputs` is missing, with the unknown-type error when `type` is
\* not a registry key, and otherwise returns the registered constructor
\* applied to `inputs`; the registry is left as it was.
C14_ReconstructionErrors ==
  ParsedMapping =>
    /\ (TypeMissing \/ InputsMissing) => parse.out.kind = "ValueError"
    /\ (~TypeMissing /\ ~TypeRegistered) => parse.out.kind = "TypeError"
    /\ (TypeRegistered /\ ~InputsMissing) =>
         parse.out = Returned(parse.regBefore[parse.data.type[1]], parse.data.inputs[1])
    /\ registry = parse.regBefore

\* C14 as amended: the missing-field error is raised when `type` is missing,
\* or when `inputs` is missing and `type` is a registry key; a `type` that is
\* present and not a registry key gives the unknown-type error whether or not
\* `inputs` is there.
C14_ReconstructionErrorsAmended ==
  ParsedMapping =>
    /\ (TypeMissing \/ (TypeRegistered /\ InputsMissing)) => parse.out.kind = "ValueError"
    /\ (~TypeMissing /\ ~TypeRegistered) => parse.out.kind = "TypeError"
    /\ (TypeRegistered /\ ~InputsMissing) =>
         parse.out = Returned(parse.regBefore[parse.data.type[1]], parse.data.inputs[1])
    /\ registry = parse.regBefore

\* A mapping with a registered type and no inputs was refused.
C14_Witness ==
  /\ ParsedMapping
  /\ TypeRegistered
  /\ InputsMissing
  /\ parse.out.kind = "ValueError"

\* C15: parse_obj(x.dict()) returns an instance of x's class with x's fields,
\* for every instance x of a defined subclass.
C15_RoundTrip ==
  parse.op = "roundtrip" =>
    parse.out = Returned(parse.src.cls, parse.src.fields)

\* C19: a model instance is returned as it is, registered or not; a mapping
\* is checked for a missing type, then an unknown type, then missing inputs;
\* empty inputs are accepted.
C19_CheckPrecedence ==
  parse.op = "parse" =>
    /\ parse.data.isModel => parse.out = Returned(parse.data.cls, parse.data.fields)
    /\ (ParsedMapping /\ TypeMissing) => parse.out = Raised("ValueError", "Missing 'type'")
    /\ (ParsedMapping /\ ~TypeMissing /\ ~TypeRegistered /\ InputsMissing) =>
         parse.out.kind = "TypeError"
    /\ (ParsedMapping /\ TypeRegistered /\ InputsMissing) =>
         parse.out = Raised("ValueError", "Missing inputs")
    /\ (ParsedMapping /\ TypeRegistered /\ parse.data.inputs = Some(EmptyDict)) =>
         /\ parse.out.kind = "return"
         /\ parse.out.fields = EmptyDict

\* A mapping with an unregistered type and no inputs was parsed while the
\* registry held other types.
C19_Witness ==
  /\ ParsedMapping
  /\ ~TypeMissing
  /\ ~TypeRegistered
  /\ InputsMissing
  /\ DOMAIN registry # {}

\* The feed has at least one source and no two of its sources share an id.
ValidSources(f) ==
  /\ Len(sources[f]) > 0
  /\ \A j, k \in 1..Len(sources[f]) : sources[f][j] = sources[f][k] => j = k

\* C13: a feed with no source or with two sources of the same id is rejected
\* before the report loop starts, and no update() runs the algorithm for
\* such a feed.
C13_FailFast ==
  /\ tick > 0 => \A f \in Feeds : ValidSources(f)
  /\ \A f \in Feeds : ret[f] \in {"returned", "AlgorithmError"} => ValidSources(f)

====
